---- MODULE Spec2Model ----
(***************************************************************************)
(* Developer Activity Dashboard: the GraphQL server's activity aggregation *)
(* engine.  Two versions of the server file are modelled side by side      *)
(* (src/unnamed/part_000 and src/unnamed/part_001); `variant' says which   *)
(* one is running.  The `activities' resolver is the same in both; the     *)
(* adapters differ in their configuration handling and in the              *)
(* StackOverflow requests they issue.                                      *)
(*                                                                         *)
(* Conventions.  An optional JavaScript value is a sequence of length 0    *)
(* (undefined) or 1.  A date string is a record [kind, ms]: kind "iso" is  *)
(* a string that `new Date' parses to the instant ms (milliseconds),       *)
(* "garbage" a non-empty string it cannot parse, "undefined" the absent    *)
(* value.  Wall-clock time (`now', cache expiry) is counted in seconds.    *)
(***************************************************************************)
EXTENDS Integers, Sequences, FiniteSets, TLC

VARIABLES variant, env, now, cache, query

vars == <<variant, env, now, cache, query>>

----------------------------------------------------------------------------
(* Optional values and small helpers                                       *)

None == <<>>
Some(v) == <<v>>
IsSome(o) == Len(o) = 1
Val(o) == o[1]

Min(a, b) == IF a <= b THEN a ELSE b
Max(a, b) == IF a >= b THEN a ELSE b

RECURSIVE SeqsUpTo(_, _)
SeqsUpTo(S, n) ==
    IF n = 0 THEN {<<>>}
    ELSE LET shorter == SeqsUpTo(S, n - 1)
         IN  shorter \cup {Append(s, x) : s \in {t \in shorter : Len(t) = n - 1}, x \in S}

Reverse(s) == [i \in 1..Len(s) |-> s[Len(s) + 1 - i]]

----------------------------------------------------------------------------
(* Dates                                                                   *)

Iso(ms) == [kind |-> "iso", ms |-> ms]
Garbage == [kind |-> "garbage", ms |-> 0]
\* The empty string "" passed as a date argument.
EmptyString == [kind |-> "empty", ms |-> 0]
Undefined == [kind |-> "undefined", ms |-> 0]

\* new Date(x).getTime(): the instant, or None for NaN (Invalid Date).
ParseDate(d) == IF d.kind = "iso" THEN Some(d.ms) ELSE None

\* new Date(ms).toISOString() for a finite ms; the round trip through
\* ParseDate gives ms back.  (A NaN argument throws: see the normalizers.)
ToISOString(ms) == Iso(ms)

\* dateA >= dateB on Date objects: false as soon as either is Invalid Date.
DateGE(a, b) ==
    LET pa == ParseDate(a)
        pb == ParseDate(b)
    IN  IsSome(pa) /\ IsSome(pb) /\ Val(pa) >= Val(pb)

DateLE(a, b) ==
    LET pa == ParseDate(a)
        pb == ParseDate(b)
    IN  IsSome(pa) /\ IsSome(pb) /\ Val(pa) <= Val(pb)

----------------------------------------------------------------------------
(* Program constants                                                       *)

Sources == {"github", "stackoverflow"}

\* new NodeCache({ stdTTL: 300 }): seconds
TTL == 300

\* activities(_, { limit = 20, offset = 0, ... })
DefaultLimit == 20
DefaultOffset == 0

----------------------------------------------------------------------------
(* Query Engine: the resolver's code after the join                        *)
(* (part_000 lines 49-92, part_001 lines 46-56)                            *)

\* A settled promise as Promise.allSettled reports it.
Fulfilled(v) == [status |-> "fulfilled", value |-> v]
Rejected == [status |-> "rejected", value |-> <<>>]

\* Mutant of Combine: the second source is used only when the first one is
\* not fulfilled.
CombineEither(githubData, stackoverflowData) ==
    IF githubData.status = "fulfilled" THEN githubData.value
    ELSE IF stackoverflowData.status = "fulfilled" THEN stackoverflowData.value
    ELSE <<>>

\* let allActivities = []; concat the value of every fulfilled adapter,
\* GitHub first, StackOverflow second.
Combine(githubData, stackoverflowData) ==
    (IF githubData.status = "fulfilled" THEN githubData.value ELSE <<>>)
    \o (IF stackoverflowData.status = "fulfilled" THEN stackoverflowData.value ELSE <<>>)

\* Mutant of Truthy: if (source !== undefined)
Defined(source) == IsSome(source)

\* if (source): undefined and the empty string are falsy.
Truthy(source) == IsSome(source) /\ Val(source) # ""

\* Mutant of SourceFilter: the source argument is ignored.
SourceFilterOff(acts, source) == acts

SourceFilter(acts, source) ==
    IF Truthy(source)
    THEN LET Keep(a) == a.source = Val(source) IN SelectSeq(acts, Keep)
    ELSE acts

\* if (fromDate), if (toDate): the argument is given and is not the empty
\* string (the only falsy string).
TruthyDate(d) == IsSome(d) /\ Val(d) # EmptyString

\* Mutant of FromDateFilter: the lower bound is exclusive.
FromDateFilterStrict(acts, fromDate) ==
    IF TruthyDate(fromDate)
    THEN LET Keep(a) == DateGE(a.timestamp, Val(fromDate))
                        /\ ParseDate(a.timestamp) # ParseDate(Val(fromDate))
         IN  SelectSeq(acts, Keep)
    ELSE acts

\* if (fromDate) { filter(new Date(a.timestamp) >= new Date(fromDate)) }
FromDateFilter(acts, fromDate) ==
    IF TruthyDate(fromDate)
    THEN LET Keep(a) == DateGE(a.timestamp, Val(fromDate)) IN SelectSeq(acts, Keep)
    ELSE acts

\* if (toDate) { filter(new Date(a.timestamp) <= new Date(toDate)) }
ToDateFilter(acts, toDate) ==
    IF TruthyDate(toDate)
    THEN LET Keep(a) == DateLE(a.timestamp, Val(toDate)) IN SelectSeq(acts, Keep)
    ELSE acts

\* (a, b) => new Date(b.timestamp) - new Date(a.timestamp); the sort takes a
\* NaN result as +0.
SortCompare(a, b) ==
    LET pa == ParseDate(a.timestamp)
        pb == ParseDate(b.timestamp)
    IN  IF IsSome(pa) /\ IsSome(pb) THEN Val(pb) - Val(pa) ELSE 0

\* Array.prototype.sort as Node's engine runs it on an array shorter than 64
\* elements: the leading run is found (and reversed when strictly
\* descending), the rest is placed by binary insertion.  With a consistent
\* comparator this is the stable sort; with an inconsistent one (a NaN
\* timestamp among distinct valid ones) it is what the engine produces.
RECURSIVE RunEnd(_, _, _)
RunEnd(s, idx, isDescending) ==
    IF idx > Len(s) THEN Len(s)
    ELSE LET order == SortCompare(s[idx], s[idx - 1])
         IN  IF (isDescending /\ order >= 0) \/ (~isDescending /\ order < 0)
             THEN idx - 1
             ELSE RunEnd(s, idx + 1, isDescending)

RECURSIVE BinarySearch(_, _, _, _)
BinarySearch(s, pivot, left, right) ==
    IF left >= right THEN left
    ELSE LET mid == left + ((right - left) \div 2)
         IN  IF SortCompare(pivot, s[mid]) < 0
             THEN BinarySearch(s, pivot, left, mid)
             ELSE BinarySearch(s, pivot, mid + 1, right)

RECURSIVE BinaryInsertionSort(_, _)
BinaryInsertionSort(s, start) ==
    IF start > Len(s) THEN s
    ELSE LET pivot == s[start]
             left == BinarySearch(s, pivot, 1, start)
             placed == SubSeq(s, 1, left - 1) \o <<pivot>>
                       \o SubSeq(s, left, start - 1) \o SubSeq(s, start + 1, Len(s))
         IN  BinaryInsertionSort(placed, start + 1)

SortActivities(acts) ==
    IF Len(acts) < 2 THEN acts
    ELSE LET isDescending == SortCompare(acts[2], acts[1]) < 0
             runLength == RunEnd(acts, 3, isDescending)
             made == IF isDescending
                     THEN Reverse(SubSeq(acts, 1, runLength))
                          \o SubSeq(acts, runLength + 1, Len(acts))
                     ELSE acts
         IN  BinaryInsertionSort(made, runLength + 1)

\* Array.prototype.slice(start, end): a negative index counts from the end.
Slice(s, start, end) ==
    LET len == Len(s)
        k == IF start < 0 THEN Max(len + start, 0) ELSE Min(start, len)
        final == IF end < 0 THEN Max(len + end, 0) ELSE Min(end, len)
    IN  SubSeq(s, k + 1, final)

\* Mutant of Paginate: the limit is taken for the end index.
PaginateLimitAsEnd(acts, offset, limit) == Slice(acts, offset, limit)

\* allActivities.slice(offset, offset + limit)
Paginate(acts, offset, limit) == Slice(acts, offset, offset + limit)

\* The destructuring defaults of the resolver's arguments.
LimitArg(args) == IF IsSome(args.limit) THEN Val(args.limit) ELSE DefaultLimit
OffsetArg(args) == IF IsSome(args.offset) THEN Val(args.offset) ELSE DefaultOffset

\* The set that reaches the sort stage.
Filtered(all, args) ==
    ToDateFilter(FromDateFilter(SourceFilter(all, args.source), args.fromDate), args.toDate)

\* allActivities after the in-place sort.
Sorted(githubData, stackoverflowData, args) ==
    SortActivities(Filtered(Combine(githubData, stackoverflowData), args))

\* const result = allActivities.slice(offset, offset + limit)
Result(allActivities, args) == Paginate(allActivities, OffsetArg(args), LimitArg(args))

----------------------------------------------------------------------------
(* Result Cache: node-cache with stdTTL 300, one key per source            *)

NoEntry == [present |-> FALSE, value |-> <<>>, t |-> 0]

\* Mutant of Live: the expiry instant is not looked at.
LiveForever(entry, time) == entry.present

\* An entry is live until its expiry instant t has passed (t < Date.now()).
Live(entry, time) == entry.present /\ ~(entry.t < time)

\* cache.get(key): the stored value of a live entry, undefined otherwise.
CacheGet(c, key, time) == IF Live(c[key], time) THEN Some(c[key].value) ELSE None

\* cache.get deletes the entry it finds expired.
CacheAfterGet(c, key, time) ==
    IF c[key].present /\ ~Live(c[key], time) THEN [c EXCEPT ![key] = NoEntry] ELSE c

\* Mutant of CacheSet: the new batch is added to the one already stored.
CacheSetAppend(c, key, value, time) ==
    [c EXCEPT ![key] = [present |-> TRUE, value |-> c[key].value \o value, t |-> time + TTL]]

\* cache.set(key, value): the whole value replaced, with a fresh TTL.
CacheSet(c, key, value, time) ==
    [c EXCEPT ![key] = [present |-> TRUE, value |-> value, t |-> time + TTL]]

\* Mutant of CacheAfterCatch: the catch block stores the empty batch it
\* returns.
CacheAfterCatchEmpty(c, key, time) == CacheSet(c, key, <<>>, time)

\* The catch block of an adapter logs and returns []: it calls neither
\* cache.set nor cache.del.
CacheAfterCatch(c, key, time) == c

\* Mutant of IsCacheHit: if (cachedData && cachedData.length)
IsCacheHitNonEmpty(cachedData) == IsSome(cachedData) /\ Val(cachedData) # <<>>

\* if (cachedData): any array, the empty one included, is truthy.
IsCacheHit(cachedData) == IsSome(cachedData)

----------------------------------------------------------------------------
(* Normalizers                                                             *)

\* The switch on event.type of the GitHub adapter.
GitHubType(eventType) ==
    CASE eventType = "PushEvent" -> "commit"
      [] eventType = "CreateEvent" -> "create"
      [] eventType = "IssuesEvent" -> "issue"
      [] eventType = "PullRequestEvent" -> "pull_request"
      [] OTHER -> eventType

GitHubTitle(eventType) ==
    CASE eventType = "PushEvent" -> "Pushed commit(s)"
      [] eventType = "CreateEvent" -> "Created"
      [] eventType = "IssuesEvent" -> "issue"
      [] eventType = "PullRequestEvent" -> "pull request"
      [] OTHER -> "GitHub activity: " \o eventType

\* response.data.map(event => ...): created_at is copied as it is.
NormalizeGitHubEvent(event) ==
    [id |-> event.id, source |-> "github", type |-> GitHubType(event.type),
     title |-> GitHubTitle(event.type), timestamp |-> event.created_at]

\* Mutant of NormalizeGitHub: events without a dedicated mapping are skipped.
NormalizeGitHubMapped(events) ==
    LET Mapped(event) ==
            event.type \in {"PushEvent", "CreateEvent", "IssuesEvent", "PullRequestEvent"}
        kept == SelectSeq(events, Mapped)
    IN  [i \in 1..Len(kept) |-> NormalizeGitHubEvent(kept[i])]

NormalizeGitHub(events) == [i \in 1..Len(events) |-> NormalizeGitHubEvent(events[i])]

\* item.creation_date || item.last_activity_date: 0 and undefined are falsy.
ActivitySeconds(item) ==
    IF IsSome(item.creation_date) /\ Val(item.creation_date) # 0
    THEN item.creation_date
    ELSE item.last_activity_date

\* x || ...: an id field counts when it is present and not "" (falsy).
HasId(x) == IsSome(x) /\ Val(x) # ""

\* The id is generated when neither field counts.
NeedsGeneratedId(item) == ~HasId(item.post_id) /\ ~HasId(item.question_id)

\* item.post_id || item.question_id || `so-${Date.now()}-${Math.random()}`
\* (time is Date.now(), random is this item's draw of Math.random()).
ActivityId(item, time, random) ==
    IF HasId(item.post_id) THEN Val(item.post_id)
    ELSE IF HasId(item.question_id) THEN Val(item.question_id)
    ELSE "so-" \o ToString(time) \o "-" \o ToString(random)

ActivityType(item) ==
    IF item.post_type = "answer" THEN "answer"
    ELSE IF item.post_type = "question" THEN "question"
    ELSE "activity"

ActivityTitle(item) ==
    IF item.post_type = "answer" THEN "Answered"
    ELSE IF item.post_type = "question" THEN "Asked"
    ELSE "StackOverflow activity"

\* part_000: response.data.items.map(item => ...)
NormalizeActivityItem(item, time, random) ==
    [id |-> ActivityId(item, time, random), source |-> "stackoverflow", type |-> ActivityType(item),
     title |-> ActivityTitle(item),
     timestamp |-> ToISOString(Val(ActivitySeconds(item)) * 1000)]

\* new Date(NaN).toISOString() throws a RangeError.
ActivityItemsThrow(items) == \E i \in 1..Len(items) : ~IsSome(ActivitySeconds(items[i]))

\* randoms[i] is the draw of Math.random() made for items[i].
NormalizeActivityItems(items, time, randoms) ==
    [i \in 1..Len(items) |-> NormalizeActivityItem(items[i], time, randoms[i])]

\* part_001: questionsRes.data.items.forEach(q => activities.push(...))
NormalizeQuestion(q) ==
    [id |-> "q-" \o q.question_id, source |-> "stackoverflow", type |-> "question",
     title |-> "Asked", timestamp |-> ToISOString(Val(q.creation_date) * 1000)]

\* part_001: answersRes.data.items.forEach(a => activities.push(...))
NormalizeAnswer(a) ==
    [id |-> "a-" \o a.answer_id, source |-> "stackoverflow", type |-> "answer",
     title |-> "Answered question ID", timestamp |-> ToISOString(Val(a.creation_date) * 1000)]

PostsThrow(items) == \E i \in 1..Len(items) : ~IsSome(items[i].creation_date)

NormalizePosts(questions, answers) ==
    [i \in 1..Len(questions) |-> NormalizeQuestion(questions[i])]
    \o [i \in 1..Len(answers) |-> NormalizeAnswer(answers[i])]

----------------------------------------------------------------------------
(* Bounds and input sets                                                   *)

\* The slots of resolver invocations: one invocation runs at a time, the
\* next one starts once the response of the previous one has gone out.
Queries == {1}

\* Events in one GitHub response; items in one StackOverflow response.
MaxEvents == 2
MaxPosts == 1

\* The values Math.random() can return.
MaxRandom == 2

\* The draws of Math.random() in one pass over items: one per item that needs
\* a generated id (0 where none is made), the draws of one pass all different.
Draws(items) ==
    {d \in [1..Len(items) -> 0..MaxRandom] :
        /\ \A i \in 1..Len(items) : (d[i] = 0) <=> ~NeedsGeneratedId(items[i])
        /\ \A i, j \in 1..Len(items) : (i # j /\ d[i] # 0) => d[i] # d[j]}

\* The clock stops here; it moves in steps around the TTL.
MaxNow == 301
TickSteps == {TTL - 1, TTL, TTL + 1}

CompleteEnv ==
    [GITHUB_USERNAME |-> TRUE, GITHUB_TOKEN |-> TRUE, STACKOVERFLOW_USER_ID |-> TRUE]

\* process.env with at most one of the variables unset.
Envs ==
    {CompleteEnv,
     [CompleteEnv EXCEPT !.GITHUB_USERNAME = FALSE],
     [CompleteEnv EXCEPT !.GITHUB_TOKEN = FALSE],
     [CompleteEnv EXCEPT !.STACKOVERFLOW_USER_ID = FALSE]}

Args(source, limit, offset, fromDate, toDate) ==
    [source |-> source, limit |-> limit, offset |-> offset,
     fromDate |-> fromDate, toDate |-> toDate]

GitHubEvent(id, type, created_at) == [id |-> id, type |-> type, created_at |-> created_at]

ActivityItem(post_id, question_id, post_type, creation_date, last_activity_date) ==
    [post_id |-> post_id, question_id |-> question_id, post_type |-> post_type,
     creation_date |-> creation_date, last_activity_date |-> last_activity_date]

Question(question_id, creation_date) ==
    [question_id |-> question_id, creation_date |-> creation_date]

Answer(answer_id, question_id, creation_date) ==
    [answer_id |-> answer_id, question_id |-> question_id, creation_date |-> creation_date]

\* A query without arguments.
NoArgs == Args(None, None, None, None, None)

\* Inputs of the server over time.
ServerArgs ==
    {NoArgs,
     Args(Some("github"), Some(1), None, None, None),
     Args(Some(""), Some(-1), Some(-1), Some(Garbage), Some(Garbage))}

ServerGitHubEvents ==
    {GitHubEvent("g1", "PushEvent", Iso(1000)), GitHubEvent("g2", "WatchEvent", Undefined)}

ServerActivityItems ==
    {ActivityItem(Some("p1"), None, "answer", Some(2), None),
     ActivityItem(None, Some("q1"), "", None, Some(3)),
     ActivityItem(None, None, "", None, None)}

ServerQuestions == {Question("1", Some(3)), Question("2", None)}

ServerAnswers == {Answer("1", "1", Some(2))}

\* Inputs of the Query Engine on its own.
\* The date bounds of a query: each one absent or an instant.
EngineDates == {None, Some(Iso(2000))} \X {None, Some(Iso(2000))}

\* One bound an unparseable string (the empty one included), the other one
\* absent.
EngineBadDates ==
    {<<bad, None>> : bad \in {Some(Garbage), Some(EmptyString)}}
    \cup {<<None, bad>> : bad \in {Some(Garbage), Some(EmptyString)}}

\* Every page of every source within parseable bounds, and the default page
\* of every source with an unparseable bound.
EngineArgs ==
    {Args(source, limit, offset, w[1], w[2]) :
        source \in {None, Some(""), Some("github"), Some("stackoverflow")},
        limit \in {None, Some(-1), Some(0), Some(2)},
        offset \in {None, Some(-1), Some(2)},
        w \in EngineDates}
    \cup {Args(source, None, None, w[1], w[2]) :
              source \in {None, Some(""), Some("github"), Some("stackoverflow")},
              w \in EngineBadDates}

EngineGitHubEvents ==
    {GitHubEvent("g0", "PushEvent", Undefined),
     GitHubEvent("g1", "PushEvent", Iso(1000)),
     GitHubEvent("g2", "PushEvent", Iso(2000))}

EngineActivityItems ==
    {ActivityItem(Some("p1"), None, "answer", Some(secs), None) : secs \in {2, 3}}

EngineQuestions == {Question("1", Some(3))}

\* Inputs of the adapters on their own: StackOverflow's activity feed has one
\* entry per thing done, so one post can come up more than once (an answer
\* posted at 2 and revised at 3; two entries on the same question).
MaxFeed == 2

FeedGitHubEvents ==
    {GitHubEvent("g1", "PushEvent", Iso(1000)), GitHubEvent("g2", "WatchEvent", Iso(2000))}

FeedActivityItems ==
    {ActivityItem(Some("p1"), None, "answer", Some(2), None),
     ActivityItem(Some("p1"), None, "", Some(3), None),
     ActivityItem(None, Some("q1"), "question", Some(2), None),
     ActivityItem(None, Some("q1"), "", Some(3), None),
     ActivityItem(Some(""), Some("q1"), "question", Some(4), None),
     ActivityItem(Some(""), None, "", Some(5), None),
     ActivityItem(None, None, "", None, Some(6))}

EngineAnswers == {Answer("1", "1", Some(2))}

----------------------------------------------------------------------------
(* State                                                                   *)
(*   variant  which server file runs: "part_000" or "part_001"             *)
(*   env      process.env: which of the three variables are set            *)
(*   now      Date.now(), in seconds                                       *)
(*   cache    the NodeCache instance: one entry per source                 *)
(*   query    the resolver invocations in flight, one record per slot:     *)
(*            pc, the arguments, the two adapter calls, the local array    *)
(*            allActivities as it is when the resolver returns, and the    *)
(*            response.                                                    *)
(* An adapter call records, besides its state and value, what the claims   *)
(* observe: how it ended (outcome), the number of HTTP requests it issued, *)
(* and the cache entry it found (seen) when it started (at).  outcome is   *)
(* "hit", "fetched" or "failed" for a call that returned, and "thrown" for *)
(* one that an error left.  A slot also records which adapter settled      *)
(* first.                                                                  *)

Variants == {"part_000", "part_001"}

NoParts == [questions |-> None, answers |-> None]

IdleFetch ==
    [st |-> "idle", outcome |-> "none", issued |-> 0, value |-> <<>>,
     seen |-> NoEntry, at |-> 0, parts |-> NoParts]

NoResponse == [status |-> "none", value |-> <<>>]

IdleQuery ==
    [pc |-> "idle", args |-> NoArgs, gh |-> IdleFetch, so |-> IdleFetch,
     first |-> "none", allActivities |-> <<>>, resp |-> NoResponse]

\* An async function that returns: its promise is fulfilled with the value.
Return(f, outcome, value) == [f EXCEPT !.st = "settled", !.outcome = outcome, !.value = value]

\* Mutant of Catch: the batch found in the cache, expired or not, is returned
\* in place of [].
CatchStale(f) == Return(f, "failed", f.seen.value)

\* Mutant of Catch: the error is thrown on, out of the async function.
CatchRethrow(f) == [f EXCEPT !.st = "settled", !.outcome = "thrown", !.value = <<>>]

\* catch (error) { console.error(...); return []; }
Catch(f) == Return(f, "failed", <<>>)

\* Mutant of AllSettled: the join ends with the first adapter that settles.
AnySettled(gh, so) == gh.st = "settled" \/ so.st = "settled"

\* await Promise.allSettled([fetchGitHubActivity(), fetchStackOverflowActivity()])
\* resumes once both promises have settled.
AllSettled(gh, so) == gh.st = "settled" /\ so.st = "settled"

\* The promise of a settled adapter call, as allSettled reports it: rejected
\* when an error left the async function, fulfilled with the returned value
\* otherwise.
Settlement(f) == IF f.outcome = "thrown" THEN Rejected ELSE Fulfilled(f.value)

\* An adapter call of the resolver invocation r settles as f.
SettleGitHub(r, f) ==
    [r EXCEPT !.gh = f, !.first = IF @ = "none" THEN "github" ELSE @]

SettleStackOverflow(r, f) ==
    [r EXCEPT !.so = f, !.first = IF @ = "none" THEN "stackoverflow" ELSE @]

\* Mutant of Joined: the results come in the order the adapters settled.
JoinedAsCompleted(r) ==
    IF r.first = "stackoverflow"
    THEN <<Settlement(r.so), Settlement(r.gh)>>
    ELSE <<Settlement(r.gh), Settlement(r.so)>>

\* const [githubData, stackoverflowData] = await Promise.allSettled([...]):
\* the results are in the order of the promises passed, GitHub first.
Joined(r) == <<Settlement(r.gh), Settlement(r.so)>>

----------------------------------------------------------------------------
(* Source adapters, up to their first await                                *)

\* part_001 line 75: if (!username || !token) throw ...   part_000 falls
\* back to a default user name and an empty token.
GitHubConfigMissing ==
    variant = "part_001" /\ ~(env.GITHUB_USERNAME /\ env.GITHUB_TOKEN)

\* part_001 line 140: if (!userId) throw ...   part_000 falls back to '22656'.
StackOverflowConfigMissing ==
    variant = "part_001" /\ ~env.STACKOVERFLOW_USER_ID

\* The number of requests the StackOverflow adapter issues.
StackOverflowRequests == IF variant = "part_001" THEN 2 ELSE 1

\* fetchGitHubActivity() from its call to its first await (or its return).
GitHubBegin(c, time) ==
    LET cachedData == CacheGet(c, "github", time)
        f == [IdleFetch EXCEPT !.seen = c["github"], !.at = time]
    IN  IF IsCacheHit(cachedData) THEN Return(f, "hit", Val(cachedData))
        ELSE IF GitHubConfigMissing THEN Catch(f)
        ELSE [f EXCEPT !.st = "awaiting", !.issued = 1]

\* fetchStackOverflowActivity() from its call to its first await.
StackOverflowBegin(c, time) ==
    LET cachedData == CacheGet(c, "stackoverflow", time)
        f == [IdleFetch EXCEPT !.seen = c["stackoverflow"], !.at = time]
    IN  IF IsCacheHit(cachedData) THEN Return(f, "hit", Val(cachedData))
        ELSE IF StackOverflowConfigMissing THEN Catch(f)
        ELSE [f EXCEPT !.st = "awaiting", !.issued = StackOverflowRequests]

----------------------------------------------------------------------------
(* Upstream responses                                                      *)
(*   "error"      the request fails (network error, non-2xx status)        *)
(*   "malformed"  a 2xx body the mapping throws on (data is no array, an   *)
(*                event has no repo object, ...)                           *)
(*   "ok"         a 2xx body with the given items                          *)

Failure(kind) == [kind |-> kind, items |-> <<>>]
Payload(items) == [kind |-> "ok", items |-> items]

Responses(itemSet, maxLen) ==
    {Failure("error"), Failure("malformed")} \cup {Payload(p) : p \in SeqsUpTo(itemSet, maxLen)}

----------------------------------------------------------------------------
(* Actions                                                                 *)

\* The resolver is called: both adapters run up to their first await, then
\* the resolver awaits Promise.allSettled.
Start(q, args) ==
    /\ query[q].pc = "idle"
    /\ LET gh == GitHubBegin(cache, now)
           c1 == CacheAfterGet(cache, "github", now)
           so == StackOverflowBegin(c1, now)
           c2 == CacheAfterGet(c1, "stackoverflow", now)
           first == IF gh.st = "settled" THEN "github"
                    ELSE IF so.st = "settled" THEN "stackoverflow"
                    ELSE "none"
       IN  /\ query' = [query EXCEPT ![q] =
                           [IdleQuery EXCEPT !.pc = "waiting", !.args = args,
                                             !.gh = gh, !.so = so, !.first = first]]
           /\ cache' = c2
    /\ UNCHANGED <<variant, env, now>>

\* axios.get(.../events) settles: the GitHub adapter maps, stores and returns
\* the batch, or catches the error and returns [].
GitHubResponse(q, res) ==
    /\ query[q].gh.st = "awaiting"
    /\ IF res.kind = "ok"
       THEN LET activities == NormalizeGitHub(res.items)
            IN  /\ cache' = CacheSet(cache, "github", activities, now)
                /\ query' = [query EXCEPT ![q] =
                                SettleGitHub(@, Return(@.gh, "fetched", activities))]
       ELSE /\ query' = [query EXCEPT ![q] = SettleGitHub(@, Catch(@.gh))]
            /\ cache' = CacheAfterCatch(cache, "github", now)
    /\ UNCHANGED <<variant, env, now>>

\* part_000: axios.get(.../activity) settles.
ActivityResponse(q, res) ==
    /\ variant = "part_000"
    /\ query[q].so.st = "awaiting"
    /\ IF res.kind = "ok" /\ ~ActivityItemsThrow(res.items)
       THEN \E randoms \in Draws(res.items) :
                LET activities == NormalizeActivityItems(res.items, now, randoms)
                IN  /\ cache' = CacheSet(cache, "stackoverflow", activities, now)
                    /\ query' = [query EXCEPT ![q] =
                                    SettleStackOverflow(@, Return(@.so, "fetched", activities))]
       ELSE /\ query' = [query EXCEPT ![q] = SettleStackOverflow(@, Catch(@.so))]
            /\ cache' = CacheAfterCatch(cache, "stackoverflow", now)
    /\ UNCHANGED <<variant, env, now>>

\* questionsRes.data.items.forEach / answersRes.data.items.forEach on a body
\* without an items array: a TypeError.
NoItems(res) == res.kind = "malformed"

\* part_001: the code after await Promise.all([questions, answers]) once both
\* sub-responses are in.  (parts holds the sub-responses that have arrived;
\* a batch that is returned has them in its value.)
PostsArrived(q, parts) ==
    LET questions == Val(parts.questions).items
        answers == Val(parts.answers).items
    IN  IF \/ NoItems(Val(parts.questions)) \/ NoItems(Val(parts.answers))
           \/ PostsThrow(questions) \/ PostsThrow(answers)
        THEN /\ query' = [query EXCEPT ![q] =
                              SettleStackOverflow(@, Catch([@.so EXCEPT !.parts = parts]))]
             /\ cache' = CacheAfterCatch(cache, "stackoverflow", now)
        ELSE LET activities == NormalizePosts(questions, answers)
             IN  /\ cache' = CacheSet(cache, "stackoverflow", activities, now)
                 /\ query' = [query EXCEPT ![q] =
                                 SettleStackOverflow(@,
                                     Return([@.so EXCEPT !.parts = NoParts],
                                            "fetched", activities))]

\* Mutant of PromiseAllRejects: a rejected sub-request counts as an empty
\* list (the join waits for both and never rejects).
PromiseAllTolerates(res) == FALSE

\* await Promise.all([...]) rejects as soon as one of its promises rejects:
\* axios.get rejects on a network error or a non-2xx status.  A 2xx answer
\* fulfils its promise whatever its body is.
PromiseAllRejects(res) == res.kind = "error"

\* part_001: one of the two sub-requests settles.  Promise.all rejects as soon
\* as one is rejected; it fulfils when both have been answered, and the code
\* after the await runs then.
PostsResponse(q, part, res) ==
    /\ variant = "part_001"
    /\ query[q].so.st = "awaiting"
    /\ ~IsSome(query[q].so.parts[part])
    /\ IF PromiseAllRejects(res)
       THEN /\ query' = [query EXCEPT ![q] =
                             SettleStackOverflow(@, Catch(@.so))]
            /\ cache' = CacheAfterCatch(cache, "stackoverflow", now)
       ELSE LET parts == [query[q].so.parts EXCEPT ![part] = Some(res)]
            IN  IF IsSome(parts.questions) /\ IsSome(parts.answers)
                THEN PostsArrived(q, parts)
                ELSE /\ query' = [query EXCEPT ![q].so.parts = parts]
                     /\ UNCHANGED cache
    /\ UNCHANGED <<variant, env, now>>

QuestionsResponse(q, res) == PostsResponse(q, "questions", res)

AnswersResponse(q, res) == PostsResponse(q, "answers", res)

\* Mutant of CacheAfterResolve: the resolver sorts the adapters' arrays
\* themselves, and they are the arrays the cache holds.
CacheAfterSortInPlace(c, r) ==
    [source \in Sources |->
        IF c[source].present
        THEN [c[source] EXCEPT !.value = SortActivities(@)]
        ELSE c[source]]

\* The resolver starts from let allActivities = [] and concat, which gives a
\* new array; filter and slice give new arrays too, and sort works in place
\* on one of these.  The arrays of the cache are not touched.
CacheAfterResolve(c, r) == c

\* Both adapters have settled: the resolver combines, filters, sorts and
\* paginates, and returns.  Nothing in this code throws, so the catch block
\* (the "error" response) is never entered.
Respond(q) ==
    /\ query[q].pc = "waiting"
    /\ AllSettled(query[q].gh, query[q].so)
    /\ LET allActivities == Sorted(Joined(query[q])[1], Joined(query[q])[2],
                                   query[q].args)
       IN  query' = [query EXCEPT
                       ![q].pc = "done",
                       ![q].allActivities = allActivities,
                       ![q].resp = [status |-> "ok",
                                    value |-> Result(allActivities, query[q].args)]]
    /\ cache' = CacheAfterResolve(cache, query[q])
    /\ UNCHANGED <<variant, env, now>>

\* The response has gone out; the slot takes the next request.
Deliver(q) ==
    /\ query[q].pc = "done"
    /\ query' = [query EXCEPT ![q] = IdleQuery]
    /\ UNCHANGED <<variant, env, now, cache>>

\* Time passes.
Tick(d) ==
    /\ now + d <= MaxNow
    /\ now' = now + d
    /\ UNCHANGED <<variant, env, cache, query>>

----------------------------------------------------------------------------
(* The server over time: queries, upstream responses and the clock         *)

Init ==
    /\ variant \in Variants
    /\ env \in Envs
    /\ now = 0
    /\ cache = [s \in Sources |-> NoEntry]
    /\ query = [q \in Queries |-> IdleQuery]

Next ==
    \/ \E q \in Queries, args \in ServerArgs : Start(q, args)
    \/ \E q \in Queries, res \in Responses(ServerGitHubEvents, MaxEvents) : GitHubResponse(q, res)
    \/ \E q \in Queries, res \in Responses(ServerActivityItems, MaxPosts) : ActivityResponse(q, res)
    \/ \E q \in Queries, res \in Responses(ServerQuestions, MaxPosts) : QuestionsResponse(q, res)
    \/ \E q \in Queries, res \in Responses(ServerAnswers, MaxPosts) : AnswersResponse(q, res)
    \/ \E q \in Queries : Respond(q)
    \/ \E q \in Queries : Deliver(q)
    \/ \E d \in TickSteps : Tick(d)

Spec == Init /\ [][Next]_vars

----------------------------------------------------------------------------
(* The Query Engine on its own: one query against a fresh server, with     *)
(* the arguments and the upstream batches drawn from wider sets            *)

InitEngine ==
    /\ variant \in Variants
    /\ env = CompleteEnv
    /\ now = 0
    /\ cache = [s \in Sources |-> NoEntry]
    /\ query = [q \in Queries |-> IdleQuery]

NextEngine ==
    \/ \E args \in EngineArgs : Start(1, args)
    \/ \E res \in Responses(EngineGitHubEvents, MaxEvents) : GitHubResponse(1, res)
    \/ \E res \in Responses(EngineActivityItems, MaxPosts) : ActivityResponse(1, res)
    \/ \E res \in Responses(EngineQuestions, MaxPosts) : QuestionsResponse(1, res)
    \/ \E res \in Responses(EngineAnswers, MaxPosts) : AnswersResponse(1, res)
    \/ Respond(1)

SpecEngine == InitEngine /\ [][NextEngine]_vars

----------------------------------------------------------------------------
(* The adapters on their own: one query without arguments against a fresh  *)
(* server, with batches of up to MaxFeed raw records                       *)

\* An upstream does not send the same record twice in one response.
NoRepeat(items) == \A i, j \in 1..Len(items) : i # j => items[i] # items[j]

FeedGitHubResponses ==
    {res \in Responses(FeedGitHubEvents, MaxFeed) : NoRepeat(res.items)}

FeedActivityResponses ==
    {res \in Responses(FeedActivityItems, MaxFeed) : NoRepeat(res.items)}

NextFeed ==
    \/ Start(1, NoArgs)
    \/ \E res \in FeedGitHubResponses : GitHubResponse(1, res)
    \/ \E res \in FeedActivityResponses : ActivityResponse(1, res)
    \/ \E res \in Responses(ServerQuestions, MaxPosts) : QuestionsResponse(1, res)
    \/ \E res \in Responses(ServerAnswers, MaxPosts) : AnswersResponse(1, res)
    \/ Respond(1)

SpecFeed == InitEngine /\ [][NextFeed]_vars

----------------------------------------------------------------------------
(* The same with scheduling: the event loop runs the resolver's            *)
(* continuation once the join is ready, and StackOverflow answers every    *)
(* request in the end.  Nothing is assumed about GitHub's answer: axios.get *)
(* is called without a timeout, so the request may stay open for ever.     *)

StackOverflowResponds ==
    \/ \E res \in FeedActivityResponses : ActivityResponse(1, res)
    \/ \E res \in Responses(ServerQuestions, MaxPosts) : QuestionsResponse(1, res)
    \/ \E res \in Responses(ServerAnswers, MaxPosts) : AnswersResponse(1, res)

SpecHang ==
    /\ InitEngine
    /\ [][NextFeed]_vars
    /\ WF_vars(Respond(1))
    /\ WF_vars(StackOverflowResponds)

----------------------------------------------------------------------------
(* Overlapping queries: two resolver invocations on one fresh server, one  *)
(* after the other or in flight at once, each query without arguments,     *)
(* with a failing and two different good answers per upstream request;     *)
(* the clock can pass the TTL once                                         *)

Overlapping == {1, 2}

OverlapGitHubResponses ==
    {Failure("error"),
     Payload(<<GitHubEvent("g1", "PushEvent", Iso(1000))>>),
     Payload(<<GitHubEvent("g1", "PushEvent", Iso(1000)),
               GitHubEvent("g2", "WatchEvent", Iso(2000))>>)}

OverlapActivityResponses ==
    {Failure("error"),
     Payload(<<ActivityItem(Some("p1"), None, "answer", Some(2), None)>>),
     Payload(<<ActivityItem(Some("p2"), None, "question", Some(3), None)>>)}

OverlapQuestionsResponses ==
    {Failure("error"), Payload(<<>>), Payload(<<Question("1", Some(3))>>)}

OverlapAnswersResponses ==
    {Failure("error"), Payload(<<>>), Payload(<<Answer("1", "1", Some(2))>>)}

InitOverlap ==
    /\ variant \in Variants
    /\ env = CompleteEnv
    /\ now = 0
    /\ cache = [s \in Sources |-> NoEntry]
    /\ query = [q \in Overlapping |-> IdleQuery]

NextOverlap ==
    \/ \E q \in Overlapping : Start(q, NoArgs)
    \/ \E q \in Overlapping, res \in OverlapGitHubResponses : GitHubResponse(q, res)
    \/ \E q \in Overlapping, res \in OverlapActivityResponses : ActivityResponse(q, res)
    \/ \E q \in Overlapping, res \in OverlapQuestionsResponses : QuestionsResponse(q, res)
    \/ \E q \in Overlapping, res \in OverlapAnswersResponses : AnswersResponse(q, res)
    \/ \E q \in Overlapping : Respond(q)
    \/ Tick(TTL + 1)

SpecOverlap == InitOverlap /\ [][NextOverlap]_vars

----------------------------------------------------------------------------
(* Properties                                                              *)

Fetches(q) == {query[q].gh, query[q].so}

Finished(q) == query[q].pc = "done"

Succeeded(f) == f.outcome \in {"hit", "fetched"}

Failed(f) == f.outcome = "failed"

\* The resolver's pipeline applied to one batch alone.
AloneResult(batch, args) == Result(SortActivities(Filtered(batch, args)), args)

OnlySourceUp(r, down, up) ==
    (Failed(down) /\ Succeeded(up) /\ up.value # <<>>)
        => /\ r.resp.status = "ok"
           /\ down.value = <<>>
           /\ r.resp.value = AloneResult(up.value, r.args)

\* C1: when one adapter fails and the other succeeds with a non-empty batch,
\* the resolver answers without an error, and what it filters, sorts and
\* paginates is exactly the successful adapter's batch.
C1_OneSourceDown ==
    \A q \in Queries :
        Finished(q) => /\ OnlySourceUp(query[q], query[q].gh, query[q].so)
                       /\ OnlySourceUp(query[q], query[q].so, query[q].gh)

C1_Witness ==
    \E q \in Queries :
        /\ Finished(q)
        /\ Failed(query[q].gh)
        /\ Succeeded(query[q].so)
        /\ query[q].resp.value # <<>>
        /\ query[q].resp.value = query[q].so.value

\* C2: when both adapters fail, the resolver answers with the empty sequence
\* and no error.
C2_BothSourcesDown ==
    \A q \in Queries :
        (Finished(q) /\ Failed(query[q].gh) /\ Failed(query[q].so))
            => /\ query[q].resp.status = "ok"
               /\ query[q].resp.value = <<>>

\* Both adapters failed after finding expired, non-empty entries.
C2_Witness ==
    \E q \in Queries :
        /\ Finished(q)
        /\ Failed(query[q].gh)
        /\ Failed(query[q].so)
        /\ \A f \in Fetches(q) : f.seen.present /\ f.seen.value # <<>> /\ f.issued > 0
        /\ query[q].resp.value = <<>>

\* C3: a fetch that starts before the TTL of the stored entry has elapsed
\* returns exactly the stored batch, the empty one included, and issues no
\* upstream request.
C3_HitWithinTTL ==
    \A q \in Queries : \A f \in Fetches(q) :
        (f.st # "idle" /\ f.seen.present /\ f.at < f.seen.t)
            => /\ f.st = "settled"
               /\ f.outcome = "hit"
               /\ f.value = f.seen.value
               /\ f.issued = 0

\* A two-element batch served from an entry stored some time before.
C3_Witness ==
    \E q \in Queries : \E f \in Fetches(q) :
        /\ f.outcome = "hit"
        /\ f.seen.t - TTL < f.at
        /\ f.at < f.seen.t
        /\ Len(f.value) = 2
        /\ f.value[1] # f.value[2]

\* C4: a fetch that starts after the TTL of the stored entry has elapsed is
\* never served from it: it issues a new upstream request, and returns the
\* empty sequence when that request fails.
C4_NoHitAfterTTL ==
    \A q \in Queries : \A f \in Fetches(q) :
        (f.st # "idle" /\ f.seen.present /\ f.seen.t < f.at)
            => /\ f.outcome # "hit"
               /\ f.issued >= 1
               /\ (f.st = "awaiting" \/ Failed(f)) => f.value = <<>>
               /\ f.value # <<>> => f.outcome = "fetched"

C4_Witness ==
    \E q \in Queries : \E f \in Fetches(q) :
        /\ f.seen.present
        /\ f.seen.value # <<>>
        /\ f.seen.t < f.at
        /\ f.st = "settled"
        /\ Failed(f)
        /\ f.value = <<>>

----------------------------------------------------------------------------
(* Properties of the Query Engine                                          *)

\* What the two adapters handed to the resolver, GitHub first.
Combined(q) == query[q].gh.value \o query[q].so.value

Count(s, a) == Cardinality({i \in 1..Len(s) : s[i] = a})

IsInstant(d) == d.kind = "iso"

\* fromDate <= t and t <= toDate on parsed instants, for the bounds given.
Within(a, fromDate, toDate) ==
    /\ IsSome(fromDate) =>
          /\ IsInstant(a.timestamp)
          /\ IsInstant(Val(fromDate))
          /\ Val(fromDate).ms <= a.timestamp.ms
    /\ IsSome(toDate) =>
          /\ IsInstant(a.timestamp)
          /\ IsInstant(Val(toDate))
          /\ a.timestamp.ms <= Val(toDate).ms

InWindow(a, args) == Within(a, args.fromDate, args.toDate)

\* A bound that is the empty string counts as no bound.
NonEmpty(d) == IF d = Some(EmptyString) THEN None ELSE d

\* The date filters as they act: an empty-string bound filters nothing.
PassesDates(a, args) == Within(a, NonEmpty(args.fromDate), NonEmpty(args.toDate))

\* The source filter, for a source argument that is not the empty string.
OfSource(a, args) ==
    (IsSome(args.source) /\ Val(args.source) # "") => a.source = Val(args.source)

\* F: the number of activities left by the source and date filters.
FilteredLength(q) ==
    Cardinality({i \in 1..Len(Combined(q)) :
                    OfSource(Combined(q)[i], query[q].args)
                    /\ PassesDates(Combined(q)[i], query[q].args)})

\* C5: for limit >= 0 and offset >= 0 the result has
\* min(limit, max(0, F - offset)) activities.
C5_PageLength ==
    \A q \in Queries :
        (Finished(q) /\ LimitArg(query[q].args) >= 0 /\ OffsetArg(query[q].args) >= 0)
            => Len(query[q].resp.value)
                   = Min(LimitArg(query[q].args),
                         Max(0, FilteredLength(q) - OffsetArg(query[q].args)))

\* A page cut short by the end of the filtered set, after a positive offset.
C5_Witness ==
    \E q \in Queries :
        /\ Finished(q)
        /\ OffsetArg(query[q].args) > 0
        /\ Len(query[q].resp.value) > 0
        /\ Len(query[q].resp.value) < LimitArg(query[q].args)
        /\ FilteredLength(q) < Len(Combined(q))

\* C6: the result is sorted non-increasing by timestamp: wherever two
\* positions i < j of the result both carry an instant, timestamp[i] >=
\* timestamp[j].
C6_SortedNewestFirst ==
    \A q \in Queries :
        Finished(q) =>
            \A i, j \in 1..Len(query[q].resp.value) :
                (i < j /\ IsInstant(query[q].resp.value[i].timestamp)
                       /\ IsInstant(query[q].resp.value[j].timestamp))
                    => query[q].resp.value[i].timestamp.ms
                           >= query[q].resp.value[j].timestamp.ms

\* Not a claim: the order is right whenever every timestamp that reaches the
\* sort is an instant, so C6 and C9 fail only through an activity without one.
SortedWhenAllInstants ==
    \A q \in Queries :
        (Finished(q) /\ \A i \in 1..Len(query[q].allActivities) :
                            IsInstant(query[q].allActivities[i].timestamp))
            => \A i, j \in 1..Len(query[q].allActivities) :
                   i < j => query[q].allActivities[i].timestamp.ms
                                >= query[q].allActivities[j].timestamp.ms

\* Every returned activity comes from the adapters' batches, no more often
\* than it occurs there.
FromBatches(q) ==
    \A i \in 1..Len(query[q].resp.value) :
        /\ Count(query[q].resp.value, query[q].resp.value[i])
               <= Count(query[q].allActivities, query[q].resp.value[i])
        /\ Count(query[q].allActivities, query[q].resp.value[i])
               <= Count(Combined(q), query[q].resp.value[i])

\* Every returned activity has the source asked for, and every activity of
\* that source that passes the date filter reaches the pagination.
SourceKept(q, source) ==
    /\ \A i \in 1..Len(query[q].resp.value) : query[q].resp.value[i].source = source
    /\ \A i \in 1..Len(Combined(q)) :
          (Combined(q)[i].source = source /\ PassesDates(Combined(q)[i], query[q].args))
              => Count(query[q].allActivities, Combined(q)[i])
                     = Count(Combined(q), Combined(q)[i])

\* C7 as stated: filtering only narrows, and whenever a source argument is
\* given every returned activity has exactly that source and none of that
\* source is lost before pagination.
C7_NarrowingAnySource ==
    \A q \in Queries :
        Finished(q) =>
            /\ FromBatches(q)
            /\ IsSome(query[q].args.source) => SourceKept(q, Val(query[q].args.source))

\* C7 as amended: the same for a source argument that is not the empty
\* string (the empty string is taken as no source filter).
C7_Narrowing ==
    \A q \in Queries :
        Finished(q) =>
            /\ FromBatches(q)
            /\ Truthy(query[q].args.source) => SourceKept(q, Val(query[q].args.source))

\* A source filter that removed something and left something.
C7_Witness ==
    \E q \in Queries :
        /\ Finished(q)
        /\ Truthy(query[q].args.source)
        /\ query[q].resp.value # <<>>
        /\ Len(query[q].allActivities) < Len(Combined(q))
        /\ \E i \in 1..Len(Combined(q)) : Combined(q)[i].source # Val(query[q].args.source)

\* What reaches the sort is exactly the activities (of the source asked for)
\* whose instant lies within the bounds given, both bounds included.
DateWindow(q) ==
    /\ \A i \in 1..Len(Combined(q)) :
          Count(query[q].allActivities, Combined(q)[i])
              = IF OfSource(Combined(q)[i], query[q].args)
                   /\ InWindow(Combined(q)[i], query[q].args)
                THEN Count(Combined(q), Combined(q)[i])
                ELSE 0
    /\ Len(query[q].allActivities)
          = Cardinality({i \in 1..Len(Combined(q)) :
                            OfSource(Combined(q)[i], query[q].args)
                            /\ InWindow(Combined(q)[i], query[q].args)})

\* C8: with a date bound given, what reaches the sort is exactly the
\* activities (of the source asked for) whose instant t satisfies
\* fromDate <= t and t <= toDate for the bounds given, both bounds included.
C8_DateWindow ==
    \A q \in Queries :
        (Finished(q) /\ (IsSome(query[q].args.fromDate) \/ IsSome(query[q].args.toDate)))
            => DateWindow(q)

\* Not a claim: the window is exact whenever no bound is the empty string,
\* so C8 fails only through a bound "" that the resolver takes as absent.
DateWindowWhenNoEmptyBound ==
    \A q \in Queries :
        (Finished(q) /\ Some(EmptyString) \notin {query[q].args.fromDate, query[q].args.toDate})
            => DateWindow(q)

\* Both bounds given: an activity on the lower bound is kept, and so is one
\* on the upper bound, while another activity is dropped.
C8_Witness ==
    \E q \in Queries :
        /\ Finished(q)
        /\ IsSome(query[q].args.fromDate) /\ IsInstant(Val(query[q].args.fromDate))
        /\ IsSome(query[q].args.toDate) /\ IsInstant(Val(query[q].args.toDate))
        /\ \E i \in 1..Len(query[q].allActivities) :
              query[q].allActivities[i].timestamp = Val(query[q].args.fromDate)
        /\ \E i \in 1..Len(query[q].allActivities) :
              query[q].allActivities[i].timestamp = Val(query[q].args.toDate)
        /\ \E i \in 1..Len(Combined(q)) :
              /\ IsInstant(Combined(q)[i].timestamp)
              /\ Count(query[q].allActivities, Combined(q)[i]) = 0

\* C9: with offset 0 the result is the `limit' most recent filtered
\* activities of both sources: no filtered activity left out carries a later
\* instant than a returned one.
C9_MostRecentPage ==
    \A q \in Queries :
        (Finished(q) /\ OffsetArg(query[q].args) = 0 /\ LimitArg(query[q].args) >= 0)
            => \A i \in 1..Len(query[q].resp.value) :
                   \A j \in (Len(query[q].resp.value) + 1)..Len(query[q].allActivities) :
                       (IsInstant(query[q].resp.value[i].timestamp)
                        /\ IsInstant(query[q].allActivities[j].timestamp))
                           => query[q].allActivities[j].timestamp.ms
                                  <= query[q].resp.value[i].timestamp.ms

\* C10: a query with a negative limit or offset is rejected: the resolver
\* answers with a failure.
C10_NegativeRejected ==
    \A q \in Queries :
        (Finished(q) /\ (LimitArg(query[q].args) < 0 \/ OffsetArg(query[q].args) < 0))
            => query[q].resp.status = "error"

----------------------------------------------------------------------------
(* Properties of the source adapters                                       *)

\* The identity or credential of a source is absent from process.env.
ConfigAbsent(source) ==
    IF source = "github" THEN ~(env.GITHUB_USERNAME /\ env.GITHUB_TOKEN)
    ELSE ~env.STACKOVERFLOW_USER_ID

FetchOf(q, source) == IF source = "github" THEN query[q].gh ELSE query[q].so

\* C11: an adapter whose identity or credential is absent from the
\* configuration fails fast: once called it has settled with the empty
\* sequence, it has issued no upstream request, and it stores nothing in the
\* cache.
C11_FailFast ==
    \A q \in Queries : \A source \in Sources :
        (ConfigAbsent(source) /\ FetchOf(q, source).st # "idle")
            => /\ FetchOf(q, source).st = "settled"
               /\ FetchOf(q, source).issued = 0
               /\ FetchOf(q, source).value = <<>>
               /\ ~cache[source].present

IsActivity(a) ==
    /\ DOMAIN a = {"id", "source", "type", "title", "timestamp"}
    /\ a.source \in Sources

IsActivitySeq(s) == \A i \in 1..Len(s) : IsActivity(s[i])

\* C12: an adapter call never rejects: once settled, whatever the upstream
\* answered, its promise is fulfilled with a sequence of activities, so
\* Promise.allSettled never reports "rejected" to the resolver.
C12_NeverRejects ==
    \A q \in Queries : \A f \in Fetches(q) :
        f.st = "settled"
            => /\ Settlement(f).status = "fulfilled"
               /\ IsActivitySeq(Settlement(f).value)
               /\ Failed(f) => Settlement(f).value = <<>>

\* Both upstream requests went out and both adapters ended in their catch
\* block (a failed request, an unusable body or a record the mapping throws
\* on); the resolver has answered.
C12_Witness ==
    \E q \in Queries :
        /\ Finished(q)
        /\ \A f \in Fetches(q) : Failed(f) /\ f.issued >= 1
        /\ query[q].resp.status = "ok"

Responded(q) == query[q].resp.status # "none"

\* C13: the resolver has not answered as long as one of its two adapter
\* calls is unsettled: whenever a response exists, both calls have settled,
\* also when one of them returned at once from the cache.
C13_ResponseAfterJoin ==
    \A q \in Queries :
        /\ Responded(q) => \A f \in Fetches(q) : f.st = "settled"
        /\ (\E f \in Fetches(q) : f.st # "settled") => ~Finished(q)

\* One adapter returned from the cache when the query started, the other one
\* had to wait for its upstream; the response came after both.
C13_Witness ==
    \E q \in Queries :
        /\ Responded(q)
        /\ \E f \in Fetches(q) : f.outcome = "hit" /\ f.issued = 0
        /\ \E f \in Fetches(q) : f.outcome \in {"fetched", "failed"} /\ f.issued >= 1

\* The resolver's pipeline applied to the two batches, GitHub's first.
GitHubFirstResult(q) ==
    Result(SortActivities(Filtered(query[q].gh.value \o query[q].so.value, query[q].args)),
           query[q].args)

\* C14: the result is a function of the two batches and the arguments alone:
\* it is the pipeline's output on GitHub's batch followed by StackOverflow's,
\* whichever adapter settled first, and of two returned activities of
\* different sources with the same instant GitHub's comes first.
C14_CompletionOrderIrrelevant ==
    \A q \in Queries :
        Finished(q) =>
            /\ query[q].resp.value = GitHubFirstResult(q)
            /\ \A i, j \in 1..Len(query[q].resp.value) :
                  (/\ i < j
                   /\ IsInstant(query[q].resp.value[i].timestamp)
                   /\ query[q].resp.value[i].timestamp = query[q].resp.value[j].timestamp
                   /\ query[q].resp.value[i].source # query[q].resp.value[j].source)
                      => query[q].resp.value[i].source = "github"

\* StackOverflow settled first, and the result holds an activity of each
\* source with the same instant.
C14_Witness ==
    \E q \in Queries :
        /\ Finished(q)
        /\ query[q].first = "stackoverflow"
        /\ \E i, j \in 1..Len(query[q].resp.value) :
              /\ i < j
              /\ IsInstant(query[q].resp.value[i].timestamp)
              /\ query[q].resp.value[i].timestamp = query[q].resp.value[j].timestamp
              /\ query[q].resp.value[i].source = "github"
              /\ query[q].resp.value[j].source = "stackoverflow"

\* The responses a sub-request of part_001 can get.
PostsResponses(part) ==
    IF part = "questions" THEN Responses(ServerQuestions, MaxPosts)
    ELSE Responses(ServerAnswers, MaxPosts)

OtherPart(part) == IF part = "questions" THEN "answers" ELSE "questions"

\* A batch made of n questions followed by m answers, stored as it is returned.
QuestionsThenAnswers(f, entry, n, m) ==
    /\ f.outcome = "fetched"
    /\ Len(f.value) = n + m
    /\ \A i \in 1..Len(f.value) : f.value[i].type = IF i <= n THEN "question" ELSE "answer"
    /\ entry.present
    /\ entry.value = f.value

\* C15: in the adapter with separate questions and answers requests, a step
\* that takes a rejected sub-request ends the call with the empty sequence and
\* leaves the cache as it is, whether or not the other sub-response has
\* arrived; a step that takes an answered sub-request stores nothing while
\* the other one is outstanding; once both are in, the call ends the same way
\* if either body is unusable, and otherwise it either fails the same way or
\* the questions followed by the answers are stored and returned.
C15_AllOrNothing ==
    [][\A q \in Queries, part \in {"questions", "answers"} :
       \A res \in PostsResponses(part) :
          PostsResponse(q, part, res) =>
              LET arrived == query[q].so.parts[OtherPart(part)]
                  after == query'[q].so
                  ended == Failed(after) /\ after.value = <<>> /\ cache' = cache
              IN  IF res.kind = "error" THEN ended
                  ELSE IF ~IsSome(arrived) THEN after.st = "awaiting" /\ cache' = cache
                  ELSE IF res.kind # "ok" \/ Val(arrived).kind # "ok" THEN ended
                  ELSE \/ ended
                       \/ QuestionsThenAnswers(after, cache'["stackoverflow"],
                              IF part = "questions" THEN Len(res.items)
                              ELSE Len(Val(arrived).items),
                              IF part = "answers" THEN Len(res.items)
                              ELSE Len(Val(arrived).items))
      ]_vars

\* The questions had arrived, with a question in them, when the answers
\* request failed: the call returned [] and the cache holds nothing.
C15_Witness ==
    \E q \in Queries :
        /\ variant = "part_001"
        /\ Failed(query[q].so)
        /\ query[q].so.issued = 2
        /\ IsSome(query[q].so.parts.questions)
        /\ Val(query[q].so.parts.questions).items # <<>>
        /\ ~IsSome(query[q].so.parts.answers)
        /\ query[q].so.value = <<>>
        /\ ~cache["stackoverflow"].present

GitHubKinds == {"PushEvent", "CreateEvent", "IssuesEvent", "PullRequestEvent"}

\* The batch of a call is one activity per raw GitHub event, in order; an
\* event of another kind keeps its raw kind as type.
OnePerEvent(f, events) ==
    /\ f.outcome = "fetched"
    /\ Len(f.value) = Len(events)
    /\ \A i \in 1..Len(events) :
          /\ f.value[i].id = events[i].id
          /\ f.value[i].title # ""
          /\ events[i].type \notin GitHubKinds => f.value[i].type = events[i].type

\* The same for the items of StackOverflow's activity feed: the i-th
\* activity carries the i-th item's date, and a title.
OnePerItem(f, items) ==
    /\ f.outcome = "fetched"
    /\ Len(f.value) = Len(items)
    /\ \A i \in 1..Len(items) :
          /\ f.value[i].timestamp = Iso(Val(ActivitySeconds(items[i])) * 1000)
          /\ f.value[i].title # ""
          /\ items[i].post_type \notin {"answer", "question"} => f.value[i].type = "activity"

\* C16: a step that takes a good response with n raw events ends the call
\* with n activities, one per event in order; an event of a kind without a
\* dedicated mapping is kept, with a title and, for GitHub, its raw kind as
\* type.  (A StackOverflow item without any date is a record the mapping
\* throws on, not a kind without a mapping.)
C16_OnePerRawEvent ==
    [][\A q \in Queries :
          /\ \A res \in FeedGitHubResponses :
                (GitHubResponse(q, res) /\ res.kind = "ok")
                    => OnePerEvent(query'[q].gh, res.items)
          /\ \A res \in FeedActivityResponses :
                (ActivityResponse(q, res) /\ res.kind = "ok" /\ ~ActivityItemsThrow(res.items))
                    => OnePerItem(query'[q].so, res.items)
      ]_vars

\* A batch of two GitHub activities whose second one has a type that is no
\* activity type of the mapping: the raw kind of its event.
C16_Witness ==
    \E q \in Queries :
        /\ query[q].gh.outcome = "fetched"
        /\ Len(query[q].gh.value) = 2
        /\ query[q].gh.value[1].type = "commit"
        /\ query[q].gh.value[2].type = "WatchEvent"
        /\ query[q].gh.value[2].title # ""

WellFormed(a) ==
    /\ a.source \in Sources
    /\ a.type # ""
    /\ IsInstant(a.timestamp)

\* C17: every activity in the cache and every activity in a response has a
\* source of the two, a non-empty type and a timestamp that is an instant.
C17_WellFormedActivities ==
    /\ \A source \in Sources :
          \A i \in 1..Len(cache[source].value) : WellFormed(cache[source].value[i])
    /\ \A q \in Queries :
          \A i \in 1..Len(query[q].resp.value) : WellFormed(query[q].resp.value[i])

\* C18: within the batch of one adapter call no two activities have the same
\* id.
C18_UniqueIdsInBatch ==
    \A q \in Queries : \A f \in Fetches(q) :
        \A i, j \in 1..Len(f.value) : i # j => f.value[i].id # f.value[j].id

Unparseable(d) == IsSome(d) /\ ~IsSome(ParseDate(Val(d)))

\* C19: a query whose fromDate or toDate cannot be parsed as an instant is
\* answered with a failure, not with a sequence of activities.
C19_BadDateRejected ==
    \A q \in Queries :
        (Finished(q) /\ (Unparseable(query[q].args.fromDate)
                         \/ Unparseable(query[q].args.toDate)))
            => query[q].resp.status = "error"

\* C20: every query that has started is answered in the end, also when the
\* upstream request of one adapter never completes.
C20_EventuallyResponds ==
    \A q \in Queries : (query[q].pc = "waiting") ~> Responded(q)

----------------------------------------------------------------------------
(* Properties of the cache                                                 *)

\* The call for a source made by the resolver invocation r.
CallOf(r, source) == IF source = "github" THEN r.gh ELSE r.so

\* C21: a step in which an adapter call fails leaves the cache entry of its
\* source as it was, stored batch and expiry alike, and the call returns [];
\* and a call that starts while its source has no live entry is not served
\* from the cache but issues its upstream request.
C21_FailureLeavesCache ==
    [][\A q \in DOMAIN query : \A source \in Sources :
          /\ (~Failed(CallOf(query[q], source)) /\ Failed(CallOf(query'[q], source)))
                => /\ cache'[source] = cache[source]
                   /\ CallOf(query'[q], source).value = <<>>
          /\ (/\ query[q].pc = "idle"
              /\ query'[q].pc = "waiting"
              /\ ~Live(cache[source], now))
                => /\ CallOf(query'[q], source).st = "awaiting"
                   /\ CallOf(query'[q], source).issued >= 1
      ]_vars

\* One query's GitHub call has failed while the entry stored by the other
\* query's call is in the cache, whole.
C21_Witness ==
    \E q, other \in DOMAIN query :
        /\ q # other
        /\ Failed(query[q].gh)
        /\ query[q].gh.issued = 1
        /\ query[other].gh.outcome = "fetched"
        /\ Len(query[other].gh.value) = 2
        /\ cache["github"].present
        /\ cache["github"].value = query[other].gh.value

Good(responses) == {res \in responses : res.kind = "ok"}

\* The batches one successful fetch of a source can give, by the answers of
\* its upstream.
OverlapBatches(source) ==
    IF source = "github"
    THEN {NormalizeGitHub(res.items) : res \in Good(OverlapGitHubResponses)}
    ELSE IF variant = "part_000"
    THEN UNION {{NormalizeActivityItems(res.items, time, randoms) :
                     time \in {0, TTL + 1}, randoms \in Draws(res.items)} :
                res \in Good(OverlapActivityResponses)}
    ELSE {NormalizePosts(questions.items, answers.items) :
              questions \in Good(OverlapQuestionsResponses),
              answers \in Good(OverlapAnswersResponses)}

\* C22: whatever the interleaving of two queries, the value stored for a
\* source is the whole batch of one successful fetch of that source: it is
\* one of the batches an upstream answer normalizes to, it is the batch one
\* of the calls returned, and every activity in it has that source.
C22_WholeBatchOfOneFetch ==
    \A source \in Sources :
        cache[source].present
            => /\ cache[source].value \in OverlapBatches(source)
               /\ \E q \in DOMAIN query :
                     /\ CallOf(query[q], source).outcome = "fetched"
                     /\ CallOf(query[q], source).value = cache[source].value
               /\ \A i \in 1..Len(cache[source].value) :
                     cache[source].value[i].source = source

\* Two overlapping GitHub calls (both started on the empty cache, both with
\* a request of their own) fetched different batches; the cache holds one of
\* them.
C22_Witness ==
    \E q, other \in DOMAIN query :
        /\ query[q].gh.outcome = "fetched"
        /\ query[other].gh.outcome = "fetched"
        /\ ~query[q].gh.seen.present
        /\ ~query[other].gh.seen.present
        /\ query[q].gh.at = query[other].gh.at
        /\ query[q].gh.value # query[other].gh.value
        /\ query[q].gh.value # <<>>
        /\ cache["github"].present
        /\ cache["github"].value = query[other].gh.value

\* The calls for a source that wait for an upstream answer at the same time.
InFlight(source) ==
    {q \in DOMAIN query : CallOf(query[q], source).st = "awaiting"}

\* Two calls for a source that started at the same time and have both
\* fetched a batch: the second one started before the first one stored
\* its batch, or it would have been served from the cache.
Overlapped(q, other, source) ==
    /\ q # other
    /\ CallOf(query[q], source).outcome = "fetched"
    /\ CallOf(query[other], source).outcome = "fetched"
    /\ CallOf(query[q], source).at = CallOf(query[other], source).at

\* C23: when two calls for the same source overlap, only one of them has an
\* upstream request out, and both return the same batch.
C23_SingleFlight ==
    \A source \in Sources :
        /\ Cardinality(InFlight(source)) <= 1
        /\ \A q, other \in DOMAIN query :
              Overlapped(q, other, source)
                  => CallOf(query[q], source).value = CallOf(query[other], source).value

\* C24: the step in which the resolver combines, filters, sorts and
\* paginates leaves every cache entry as it is; an entry changes only when a
\* call of its source stores the batch it fetched, or when the lookup of a
\* starting call finds it expired.
C24_ResolverLeavesCache ==
    [][/\ \A q \in DOMAIN query :
             (query[q].pc = "waiting" /\ query'[q].pc = "done") => cache' = cache
       /\ \A source \in Sources :
             cache'[source] # cache[source]
                 => \E q \in DOMAIN query :
                       \/ /\ CallOf(query[q], source).st = "awaiting"
                          /\ CallOf(query'[q], source).outcome = "fetched"
                          /\ cache'[source].value = CallOf(query'[q], source).value
                       \/ /\ query[q].pc = "idle"
                          /\ query'[q].pc = "waiting"
                          /\ ~Live(cache[source], now)
                          /\ cache'[source] = NoEntry
      ]_vars

\* A query with a source filter and a limit has been answered with the
\* newer of two GitHub activities, which is the second one of the batch;
\* the cache holds the batch in the order it was stored.
C24_Witness ==
    \E q \in DOMAIN query :
        /\ Finished(q)
        /\ Truthy(query[q].args.source)
        /\ Len(query[q].gh.value) = 2
        /\ Len(query[q].resp.value) = 1
        /\ query[q].resp.value[1] = query[q].gh.value[2]
        /\ cache["github"].present
        /\ cache["github"].value = query[q].gh.value

\* The pipeline's output for the query of slot q with the source argument
\* left out.
ResultSourceOmitted(q) ==
    LET args == [query[q].args EXCEPT !.source = None]
    IN  Result(SortActivities(Filtered(Combined(q), args)), args)

\* C25: a query whose source argument is the empty string gets the result of
\* the same query without a source argument.
C25_EmptySourceIsNoFilter ==
    \A q \in Queries :
        (Finished(q) /\ query[q].args.source = Some(""))
            => query[q].resp.value = ResultSourceOmitted(q)

\* A query with source "" answered with an activity of each source.
C25_Witness ==
    \E q \in Queries :
        /\ Finished(q)
        /\ query[q].args.source = Some("")
        /\ \E i \in 1..Len(query[q].resp.value) : query[q].resp.value[i].source = "github"
        /\ \E i \in 1..Len(query[q].resp.value) :
              query[q].resp.value[i].source = "stackoverflow"

====
